---- MODULE Spec2Model ----
(***************************************************************************)
(* Task-manager backend (intermurphi/check-it): the tasks table in         *)
(* tasks.db, the storage/domain functions of core.py, the two init_db      *)
(* variants of db.py and backend/db.py and the HTTP handlers of            *)
(* backend/main.py.  Requests run concurrently, one per worker in Procs;   *)
(* every SQL statement with its commit is one atomic step, so the only     *)
(* handler with an interleaving point is PUT /tasks/{id}, whose            *)
(* update_task first fetches the row on one connection and later writes    *)
(* the merged row on another.                                              *)
(***************************************************************************)
EXTENDS Integers, Sequences, FiniteSets

VARIABLES
    db,      \* tasks.db: [exists, rows, seq]; seq is sqlite_sequence for tasks
    pc,      \* per worker: "idle", or "fetched" between update_task's two statements
    local,   \* per worker: update_task's arguments and the Task it fetched
    resp,    \* the last request answered and the HTTP response sent for it
    open,    \* connections opened on which close() was never called
    step,    \* the last step taken: [n, proc, op]; proc names the worker of an update
    hist     \* history: the ids handed out, the Tasks the responses so far say exist,
             \* counts of rows created, seeded and deleted, of seedings and of
             \* updates written, and the response that preceded the last update's

vars == <<db, pc, local, resp, open, step, hist>>

-----------------------------------------------------------------------------
(* Bounds of the model. *)

\* Number of steps (statements executed for requests and initializations) in a run.
MaxOps == 5

\* The workers serving requests.
Procs == {1, 2}

\* Request payloads.  "" is a legal str for pydantic, so it is an input.
Names == {"", "X"}
Descs == {"Y"}

\* Optional[T]: None is <<>>, a value v is <<v>>.
None == <<>>
Some(v) == <<v>>
Opt(S) == {None} \cup {Some(v) : v \in S}

\* TaskUpdate bodies: no field, or one of name, desc and status.
Patches ==
    {u \in Opt(Names) \X Opt(Descs) \X Opt(BOOLEAN) :
        Cardinality({i \in 1..3 : u[i] # None}) <= 1}

-----------------------------------------------------------------------------
(* models.py *)

Task(id, name, desc, status) ==
    [id |-> id, name |-> name, desc |-> desc, status |-> status]

-----------------------------------------------------------------------------
(* sqlite: the tasks table *)

\* A Python bool bound to a parameter is stored as INTEGER 1 or 0.
adapt_bool(b) == IF b THEN 1 ELSE 0

\* bool(row['status'])
bool(i) == i # 0

Row(id, name, desc, status) ==
    [id |-> id, name |-> name, desc |-> desc, status |-> adapt_bool(status)]

MaxOf(S) == IF S = {} THEN 0 ELSE CHOOSE m \in S : \A x \in S : x <= m

\* Mutant: INTEGER PRIMARY KEY without AUTOINCREMENT picks max(rowid)+1.
NextRowidNoAutoincrement(d) == MaxOf({r.id : r \in d.rows}) + 1

\* id INTEGER PRIMARY KEY AUTOINCREMENT: one more than the largest rowid the
\* table has ever held, which sqlite_sequence remembers across deletes.
NextRowid(d) == MaxOf({d.seq} \cup {r.id : r \in d.rows}) + 1

\* Mutant: INSERT INTO tasks (name, desc) VALUES (?, ?), status left to DEFAULT 0.
InsertDefaultStatus(d, name, desc, status) ==
    LET id == NextRowid(d)
    IN [d EXCEPT !.rows = @ \cup {Row(id, name, desc, FALSE)}, !.seq = id]

\* INSERT INTO tasks (name, desc, status) VALUES (?, ?, ?)
Insert(d, name, desc, status) ==
    LET id == NextRowid(d)
    IN [d EXCEPT !.rows = @ \cup {Row(id, name, desc, status)}, !.seq = id]

\* SELECT * FROM tasks WHERE id = ?
SelectById(d, task_id) == {r \in d.rows : r.id = task_id}

\* SELECT * FROM tasks: the rows in rowid order.
RECURSIVE SelectAll(_)
SelectAll(rs) ==
    IF rs = {} THEN <<>>
    ELSE LET r == CHOOSE x \in rs : \A y \in rs : x.id <= y.id
         IN <<r>> \o SelectAll(rs \ {r})

\* The Task built from a fetched row.
FromRow(r) == Task(r.id, r.name, r.desc, bool(r.status))

\* What a storage function hands back: the database after it, its return
\* value, whether it raised, and the connections it left unclosed: the one
\* get_db_connection() opened, less the one conn.close() released.
Returns(d, ret) == [db |-> d, ret |-> ret, raised |-> FALSE, open |-> 1 - 1]

\* sqlite3.OperationalError out of cursor.execute: the lines after it,
\* conn.close() among them, are skipped, and nothing was written.
Raises(d) == [db |-> d, ret |-> None, raised |-> TRUE, open |-> 1]

-----------------------------------------------------------------------------
(* core.py *)

create_task(d, name, desc, status) ==
    IF ~d.exists THEN Raises(d)
    ELSE LET d2 == Insert(d, name, desc, status)
             task_id == d2.seq
         IN Returns(d2, Some(Task(task_id, name, desc, status)))

get_all_tasks(d) ==
    IF ~d.exists THEN Raises(d)
    ELSE LET rows == SelectAll(d.rows)
         IN Returns(d, [i \in 1..Len(rows) |-> FromRow(rows[i])])

get_task_by_id(d, task_id) ==
    IF ~d.exists THEN Raises(d)
    ELSE LET row == SelectById(d, task_id)
         IN IF row # {}
            THEN Returns(d, Some(FromRow(CHOOSE r \in row : TRUE)))
            ELSE Returns(d, None)

\* Mutant: "status if status else task.status".
updated_status_truthy(status, task) ==
    IF status # None /\ status[1] THEN status[1] ELSE task.status

updated_name(name, task) == IF name # None THEN name[1] ELSE task.name
updated_desc(desc, task) == IF desc # None THEN desc[1] ELSE task.desc
updated_status(status, task) == IF status # None THEN status[1] ELSE task.status

\* Mutant: UPDATE tasks SET name = ?, desc = ?, status = ? (no WHERE).
UpdateEveryRow(d, task_id, name, desc, status) ==
    [d EXCEPT !.rows = {[r EXCEPT !.name = name, !.desc = desc,
                                  !.status = adapt_bool(status)] : r \in @}]

\* UPDATE tasks SET name = ?, desc = ?, status = ? WHERE id = ?
Update(d, task_id, name, desc, status) ==
    [d EXCEPT !.rows = {IF r.id = task_id
                        THEN [r EXCEPT !.name = name, !.desc = desc,
                                       !.status = adapt_bool(status)]
                        ELSE r : r \in @}]

\* Mutant: the merge reads the row again inside the writing transaction.
update_task_write_refetch(d, task, task_id, name, desc, status) ==
    LET row == SelectById(d, task_id)
        cur == IF row = {} THEN task ELSE FromRow(CHOOSE r \in row : TRUE)
        n == updated_name(name, cur)
        ds == updated_desc(desc, cur)
        s == updated_status(status, cur)
    IN Returns(Update(d, task_id, n, ds, s), Some(Task(task_id, n, ds, s)))

\* update_task from its second connection on: task is what line 46 fetched.
update_task_write(d, task, task_id, name, desc, status) ==
    IF ~d.exists THEN Raises(d)
    ELSE LET n == updated_name(name, task)
             ds == updated_desc(desc, task)
             s == updated_status(status, task)
         IN Returns(Update(d, task_id, n, ds, s), Some(Task(task_id, n, ds, s)))

\* Mutant: DELETE FROM tasks WHERE id <= ?
DeleteUpTo(d, task_id) == [d EXCEPT !.rows = {r \in @ : r.id > task_id}]

\* DELETE FROM tasks WHERE id = ?
Delete(d, task_id) == [d EXCEPT !.rows = {r \in @ : r.id # task_id}]

delete_task(d, task_id) ==
    IF ~d.exists THEN Raises(d)
    ELSE LET d2 == Delete(d, task_id)
             rowcount == Cardinality(d.rows) - Cardinality(d2.rows)
             deleted == rowcount > 0
         IN Returns(d2, deleted)

-----------------------------------------------------------------------------
(* db.py and backend/db.py *)

\* CREATE TABLE IF NOT EXISTS tasks (...): a new table has no rows and no
\* sqlite_sequence entry.
CreateTableIfNotExists(d) ==
    IF d.exists THEN d ELSE [exists |-> TRUE, rows |-> {}, seq |-> 0]

\* src/db.py: the table only.
init_db(d) == Returns(CreateTableIfNotExists(d), None)

default_tasks ==
    << [name |-> "TASK-1", desc |-> "First task to complete", status |-> FALSE],
       [name |-> "TASK-2", desc |-> "Second task to complete", status |-> FALSE],
       [name |-> "TASK-3", desc |-> "Third task to complete", status |-> FALSE] >>

\* cursor.executemany(INSERT ..., tasks): one INSERT per element, in order.
RECURSIVE ExecuteManyInsert(_, _)
ExecuteManyInsert(d, tasks) ==
    IF tasks = <<>> THEN d
    ELSE LET t == Head(tasks)
         IN ExecuteManyInsert(Insert(d, t.name, t.desc, t.status), Tail(tasks))

\* Mutant: the default tasks go in without the COUNT(*) check.
backend_init_db_always(d) ==
    Returns(ExecuteManyInsert(CreateTableIfNotExists(d), default_tasks), None)

\* Mutant: the default tasks go in only when this call created the table.
backend_init_db_on_create(d) ==
    IF ~d.exists
    THEN Returns(ExecuteManyInsert(CreateTableIfNotExists(d), default_tasks), None)
    ELSE Returns(d, None)

\* src/backend/db.py: the table, and the default tasks if it holds no row.
backend_init_db(d) ==
    LET d1 == CreateTableIfNotExists(d)
        task_count == Cardinality(d1.rows)
    IN IF task_count = 0
       THEN Returns(ExecuteManyInsert(d1, default_tasks), None)
       ELSE Returns(d1, None)

-----------------------------------------------------------------------------
(* State *)

NoDb == [exists |-> FALSE, rows |-> {}, seq |-> 0]
NoLocal == [task_id |-> 0, name |-> None, desc |-> None, status |-> None, task |-> None]
NoResp == [op |-> "none", task_id |-> 0, name |-> None, desc |-> None, status |-> None,
           code |-> 0, body |-> <<>>, rowcount |-> 0]

Response(op, task_id, name, desc, status, code, body, rowcount) ==
    [op |-> op, task_id |-> task_id, name |-> name, desc |-> desc, status |-> status,
     code |-> code, body |-> body, rowcount |-> rowcount]

Init ==
    /\ db = NoDb
    /\ pc = [p \in Procs |-> "idle"]
    /\ local = [p \in Procs |-> NoLocal]
    /\ resp = NoResp
    /\ open = 0
    /\ step = [n |-> 0, proc |-> 0, op |-> "none"]
    /\ hist = [issued |-> {}, expect |-> {}, created |-> 0, seeded |-> 0,
               deleted |-> 0, seedings |-> 0, updated |-> 0, prev |-> NoResp]

\* Ids a request may name: those handed out so far and one that never was.
TaskIds == 1..(db.seq + 1)

Took(p, op) == step' = [n |-> step.n + 1, proc |-> p, op |-> op]

\* A request is taken by the first idle worker.
Free(p) == pc[p] = "idle" /\ \A q \in Procs : q < p => pc[q] # "idle"

\* An exception nobody catches: the server answers 500 Internal Server Error.
Fault(p, op, r) ==
    /\ db' = r.db
    /\ open' = open + r.open
    /\ resp' = Response(op, 0, None, None, None, 500, <<>>, 0)
    /\ pc' = [pc EXCEPT ![p] = "idle"]
    /\ local' = [local EXCEPT ![p] = NoLocal]
    /\ Took(0, op)
    /\ UNCHANGED hist

-----------------------------------------------------------------------------
(* backend/main.py *)

\* @app.on_event("startup")
startup ==
    /\ step.n < MaxOps
    /\ LET r == backend_init_db(db)
           new == r.db.rows \ db.rows
       IN /\ db' = r.db
          /\ open' = open + r.open
          /\ hist' = [hist EXCEPT !.issued = @ \cup {x.id : x \in new},
                                  !.expect = @ \cup {FromRow(x) : x \in new},
                                  !.seeded = @ + Cardinality(new),
                                  !.seedings = @ + (IF new = {} THEN 0 ELSE 1)]
    /\ Took(0, "startup")
    /\ UNCHANGED <<pc, local, resp>>

\* A call of src/db.py's init_db.
initialize ==
    /\ step.n < MaxOps
    /\ LET r == init_db(db)
       IN /\ db' = r.db
          /\ open' = open + r.open
    /\ Took(0, "initialize")
    /\ UNCHANGED <<pc, local, resp, hist>>

\* POST /tasks
create_new_task(p) ==
    /\ Free(p)
    /\ step.n < MaxOps
    /\ \E name \in Names, desc \in Descs, status \in BOOLEAN :
         LET r == create_task(db, name, desc, status)
         IN IF r.raised
            THEN Fault(p, "create", r)
            ELSE /\ db' = r.db
                 /\ resp' = Response("create", 0, Some(name), Some(desc), Some(status),
                                     200, r.ret, 1)
                 /\ open' = open + r.open
                 /\ hist' = [hist EXCEPT !.issued = @ \cup {r.ret[1].id},
                                         !.expect = @ \cup {r.ret[1]},
                                         !.created = @ + 1]
                 /\ Took(0, "create")
                 /\ UNCHANGED <<pc, local>>

\* GET /tasks
get_tasks(p) ==
    /\ Free(p)
    /\ step.n < MaxOps
    /\ LET r == get_all_tasks(db)
       IN IF r.raised
          THEN Fault(p, "get_tasks", r)
          ELSE /\ resp' = Response("get_tasks", 0, None, None, None, 200, r.ret, 0)
               /\ open' = open + r.open
               /\ Took(0, "get_tasks")
               /\ db' = r.db
               /\ UNCHANGED <<pc, local, hist>>

\* GET /tasks/{task_id}
get_task(p) ==
    /\ Free(p)
    /\ step.n < MaxOps
    /\ \E task_id \in TaskIds :
         LET r == get_task_by_id(db, task_id)
         IN IF r.raised
            THEN Fault(p, "get_task", r)
            ELSE /\ resp' = Response("get_task", task_id, None, None, None,
                                     IF r.ret = None THEN 404 ELSE 200, r.ret, 0)
                 /\ open' = open + r.open
                 /\ Took(0, "get_task")
                 /\ db' = r.db
                 /\ UNCHANGED <<pc, local, hist>>

\* PUT /tasks/{task_id}, up to update_task's "if not task: return None":
\* the fetch on get_task_by_id's own connection.
update_fetch(p) ==
    /\ Free(p)
    /\ step.n < MaxOps
    /\ \E task_id \in TaskIds, task_update \in Patches :
         LET name == task_update[1]
             desc == task_update[2]
             status == task_update[3]
             r == get_task_by_id(db, task_id)
         IN IF r.raised
            THEN Fault(p, "update", r)
            ELSE /\ db' = r.db
                 /\ open' = open + r.open
                 /\ IF r.ret = None
                    THEN /\ resp' = Response("update", task_id, name, desc, status,
                                             404, <<>>, 0)
                         /\ Took(0, "update")
                         /\ UNCHANGED <<pc, local>>
                    ELSE /\ pc' = [pc EXCEPT ![p] = "fetched"]
                         /\ local' = [local EXCEPT ![p] =
                                [task_id |-> task_id, name |-> name, desc |-> desc,
                                 status |-> status, task |-> r.ret]]
                         /\ Took(p, "update_fetch")
                         /\ UNCHANGED resp
                 /\ UNCHANGED hist

\* PUT /tasks/{task_id}, the rest: the merge, the UPDATE and the response.
update_write(p) ==
    /\ pc[p] = "fetched"
    /\ step.n < MaxOps
    /\ LET l == local[p]
           r == update_task_write(db, l.task[1], l.task_id, l.name, l.desc, l.status)
           rowcount == Cardinality(SelectById(db, l.task_id))
       IN IF r.raised
          THEN Fault(p, "update", r)
          ELSE /\ db' = r.db
               /\ open' = open + r.open
               /\ resp' = Response("update", l.task_id, l.name, l.desc, l.status,
                                   IF r.ret = None THEN 404 ELSE 200, r.ret, rowcount)
               /\ hist' = [hist EXCEPT
                      !.expect = {IF t.id = l.task_id THEN r.ret[1] ELSE t : t \in @},
                      !.updated = @ + 1,
                      !.prev = resp]
               /\ pc' = [pc EXCEPT ![p] = "idle"]
               /\ local' = [local EXCEPT ![p] = NoLocal]
               /\ Took(p, "update")

\* DELETE /tasks/{task_id}
delete_existing_task(p) ==
    /\ Free(p)
    /\ step.n < MaxOps
    /\ \E task_id \in TaskIds :
         LET r == delete_task(db, task_id)
         IN IF r.raised
            THEN Fault(p, "delete", r)
            ELSE /\ db' = r.db
                 /\ open' = open + r.open
                 /\ resp' = Response("delete", task_id, None, None, None,
                                     IF ~r.ret THEN 404 ELSE 200, <<>>,
                                     IF r.ret THEN 1 ELSE 0)
                 /\ hist' = IF r.ret
                            THEN [hist EXCEPT
                                    !.expect = {t \in @ : t.id # task_id},
                                    !.deleted = @ + 1]
                            ELSE hist
                 /\ Took(0, "delete")
                 /\ UNCHANGED <<pc, local>>

Next ==
    \/ startup
    \/ initialize
    \/ \E p \in Procs : create_new_task(p)
    \/ \E p \in Procs : get_tasks(p)
    \/ \E p \in Procs : get_task(p)
    \/ \E p \in Procs : update_fetch(p)
    \/ \E p \in Procs : update_write(p)
    \/ \E p \in Procs : delete_existing_task(p)

Spec == Init /\ [][Next]_vars

-----------------------------------------------------------------------------
(* Properties *)

Ids(d) == {r.id : r \in d.rows}
StoredTask(d, task_id) == FromRow(CHOOSE r \in d.rows : r.id = task_id)
Supplied(opt, old) == IF opt # None THEN opt[1] ELSE old
SeedTask(id, k) == Task(id, default_tasks[k].name, default_tasks[k].desc, FALSE)

\* The step just taken answered a request of kind op with status code.
Answered(op, code) == step.op = op /\ resp.op = op /\ resp.code = code

\* C1: the id create_task returns was never handed out before, deleted Tasks
\* included; no step gives a row an id that was handed out earlier unless the
\* row already had it, and no two rows share an id.
C1_IdNeverReused ==
    [][ /\ Answered("create", 200)' => resp'.body[1].id \notin hist.issued
        /\ \A r \in db'.rows : r.id \in Ids(db) \/ r.id \notin hist.issued
        /\ \A r1, r2 \in db'.rows : r1.id = r2.id => r1 = r2 ]_vars

\* C1 witness: a create answered after the row with the preceding id was deleted.
C1_Witness ==
    /\ Answered("create", 200)
    /\ hist.deleted > 0
    /\ (resp.body[1].id - 1) \in hist.issued \ Ids(db)

\* C2: right after create_task(n, d, s) returned Task i, the returned Task is
\* {i, n, d, s} and get_task_by_id(i) returns a Task equal to it.
C2_CreateThenGet ==
    Answered("create", 200) =>
        LET t == resp.body[1]
            want == Task(t.id, resp.name[1], resp.desc[1], resp.status[1])
        IN /\ resp.body = <<want>>
           /\ get_task_by_id(db, t.id).ret = Some(want)
           /\ ~get_task_by_id(db, t.id).raised

\* C2 witness: a create with status true and an empty name into a table that
\* already holds other rows.
C2_Witness ==
    /\ Answered("create", 200)
    /\ resp.status = Some(TRUE)
    /\ resp.name = Some("")
    /\ Cardinality(db.rows) >= 2

\* The step is a worker's UPDATE taken right after its own fetch, nothing between.
UninterleavedUpdate ==
    /\ step.op = "update_fetch"
    /\ step'.op = "update"
    /\ step'.proc = step.proc
    /\ step'.proc # 0

\* C3: an update_task that runs without interleaving on an existing id returns,
\* and stores, for each of name, desc and status the supplied value (False and ""
\* included) or else the value stored before; the id and every other row are
\* unchanged.
C3_MergeUpdate ==
    [][ UninterleavedUpdate =>
          LET id == resp'.task_id
              old == StoredTask(db, id)
              want == Task(id, Supplied(resp'.name, old.name),
                               Supplied(resp'.desc, old.desc),
                               Supplied(resp'.status, old.status))
          IN /\ id \in Ids(db)
             /\ resp'.code = 200
             /\ resp'.body = <<want>>
             /\ get_task_by_id(db', id).ret = Some(want)
             /\ {r \in db'.rows : r.id # id} = {r \in db.rows : r.id # id}
             /\ Ids(db') = Ids(db)
             /\ (resp'.name = None /\ resp'.desc = None /\ resp'.status = None
                    => resp'.body = <<old>> /\ db' = db) ]_vars

\* C3 witness: a name-only update to "" of the first seed row, written with
\* desc and status as they were and the other two rows as they were.
C3_Witness ==
    /\ Answered("update", 200)
    /\ step.proc # 0
    /\ resp.name = Some("") /\ resp.desc = None /\ resp.status = None
    /\ resp.body = <<Task(1, "", default_tasks[1].desc, FALSE)>>
    /\ get_all_tasks(db).ret = <<resp.body[1], SeedTask(2, 2), SeedTask(3, 3)>>

\* C4: delete_task on an existing id answers 200 and removes exactly that row,
\* after which get_task_by_id returns None and delete_task returns False without
\* raising or changing a row; on an id with no row the handlers answer 404 and
\* change nothing.
C4_DeleteThenNotFound ==
    [][ /\ (step'.op = "delete" /\ resp'.code # 500) =>
             LET id == resp'.task_id
             IN IF id \in Ids(db)
                THEN /\ resp'.code = 200
                     /\ db'.rows = {r \in db.rows : r.id # id}
                     /\ Cardinality(db'.rows) = Cardinality(db.rows) - 1
                     /\ get_task_by_id(db', id).ret = None
                     /\ delete_task(db', id).ret = FALSE
                     /\ ~delete_task(db', id).raised
                     /\ delete_task(db', id).db = db'
                ELSE resp'.code = 404 /\ db' = db
        /\ (step'.op = "get_task" /\ resp'.code # 500 /\ resp'.task_id \notin Ids(db)) =>
             resp'.code = 404 /\ resp'.body = <<>> /\ db' = db ]_vars

\* C4 witness: a second delete of an id that was handed out and deleted, answered 404.
C4_Witness ==
    /\ Answered("delete", 404)
    /\ resp.task_id \in hist.issued \ Ids(db)
    /\ hist.deleted >= 1

\* C5: get_all_tasks returns one Task for each id created (or seeded) and not
\* deleted, N - M in all, each as create or update last wrote it.
C5_ListMatchesHistory ==
    Answered("get_tasks", 200) =>
        /\ Len(resp.body) = hist.created + hist.seeded - hist.deleted
        /\ {resp.body[i] : i \in 1..Len(resp.body)} = hist.expect
        /\ \A i, j \in 1..Len(resp.body) : resp.body[i].id = resp.body[j].id => i = j

\* C5 witness: a listing after an update and a delete, holding the updated Task.
C5_Witness ==
    /\ Answered("get_tasks", 200)
    /\ hist.deleted >= 1
    /\ hist.updated >= 1
    /\ Len(resp.body) = hist.created + hist.seeded - hist.deleted
    /\ \E i \in 1..Len(resp.body) : resp.body[i].name = "X"

C8_NoPartialSuccess ==
    (Answered("update", 200) /\ step.proc # 0) =>
        /\ resp.rowcount > 0
        /\ get_task_by_id(db, resp.task_id).ret = resp.body

\* C9: an update written after another request changed the row it fetched is
\* answered 200 all the same and stores, for every field it did not supply, the
\* value it fetched: what the other request wrote there is lost.
C9_StaleFieldsOverwrite ==
    [][ (step'.op = "update" /\ step'.proc # 0 /\ resp'.task_id \in Ids(db)
            /\ StoredTask(db, resp'.task_id) # local[step'.proc].task[1]) =>
          LET id == resp'.task_id
              fetched == local[step'.proc].task[1]
              now == StoredTask(db', id)
          IN /\ resp'.code = 200
             /\ resp'.body = <<now>>
             /\ resp'.name = None => now.name = fetched.name
             /\ resp'.desc = None => now.desc = fetched.desc
             /\ resp'.status = None => now.status = fetched.status ]_vars

\* C9 witness: a name-only update to "X" of the first seed row was answered 200,
\* then a desc-only update of the same row that had fetched before it; the row
\* holds the new desc and the old name.
C9_Witness ==
    /\ Answered("update", 200)
    /\ step.proc # 0
    /\ hist.prev.op = "update" /\ hist.prev.code = 200 /\ hist.prev.task_id = 1
    /\ hist.prev.name = Some("X") /\ hist.prev.desc = None /\ hist.prev.status = None
    /\ hist.prev.body = <<Task(1, "X", default_tasks[1].desc, FALSE)>>
    /\ resp.task_id = 1
    /\ resp.name = None /\ resp.desc = Some("Y") /\ resp.status = None
    /\ resp.body = <<Task(1, "TASK-1", "Y", FALSE)>>
    /\ get_task_by_id(db, 1).ret = resp.body

\* C10: no storage function leaves a connection unclosed, whether it returned
\* or raised.
C10_ConnectionsReleased == open = 0

====
